---- MODULE Spec2Model ----
(***************************************************************************)
(* Model of the memory game of src/main.js (class MemoryGame).             *)
(*                                                                         *)
(* Time advances in steps of 200 ms, the greatest common divisor of the   *)
(* delays the program uses (600, 1200, 1600 and 1000 ms).  Deferred        *)
(* callbacks (setTimeout, setInterval, requestAnimationFrame) are entries  *)
(* of the sequence `tasks`, kept in firing order: by remaining time, and   *)
(* in creation order among equal remaining times, as the browser's timer   *)
(* queue does.  User events (card clicks, startGame) may happen at any     *)
(* moment, before or after the callbacks that are due at that moment.      *)
(***************************************************************************)
EXTENDS Integers, Sequences, FiniteSets

\* ------------------------------------------------------------------------
\* Bounds of the model
MaxGames == 2        \* number of startGame calls explored
MaxTurns == 3        \* completed pair selections explored per game
MaxSeconds == 6      \* elapsed seconds explored per game
MaxDirect == 5       \* largest argument of a direct call of shuffleCards
MaxDisplaced == 3    \* elements the step-by-step sort may leave displaced
MaxFrameDelay == 5   \* time steps a requestAnimationFrame callback may wait
                     \* (a page that is not visible gets no animation frame)

\* ------------------------------------------------------------------------
\* Program constants, in milliseconds
ANIMATION_DURATION == 600
CHECK_MATCH_DELAY == 1600
TIMER_INTERVAL == 1000

\* The time step: the greatest common divisor of the delays above
Unit == 200

GAME_STATES ==
    [IDLE |-> "idle", PLAYING |-> "playing",
     CHECKING |-> "checking", FINISHED |-> "finished"]

LEVELS ==
    [EASY |-> "2x2", MEDIUM |-> "4x3", HARD |-> "4x4",
     EXPERT |-> "4x5", MASTER |-> "4x6"]

\* The values of the level selector explored by the model of the game.
LevelChoices == {LEVELS.EASY}

\* The values of the level selector for which board creation is explored:
\* every level, and a value getDimensions does not know.
LevelInputs ==
    { LEVELS.EASY, LEVELS.MEDIUM, LEVELS.HARD, LEVELS.EXPERT, LEVELS.MASTER,
      "unknown" }

symbols ==
    << "1", "2", "3", "4", "5", "6", "7", "8", "9", "10", "11", "12",
       "A", "B", "C", "L", "W", "X", "Y", "Z", "M", "N", "O", "P", "Q",
       "R", "S", "T", "U", "V" >>

VARIABLES
    game,           \* number of startGame calls so far
    level,          \* levelSelect.value read by the last startGame
    board,          \* symbols of the cards of the current board, in DOM order
    flipped,        \* cards of the board carrying the class 'flipped'
    matched,        \* cards of the board carrying the class 'matched'
    selectedCards,  \* this.selectedCards
    allowClick,     \* this.allowClick
    timer,          \* this.timer: id of the last interval created, 0 = null
    seconds,        \* this.seconds
    turns,          \* this.turns
    gameState,      \* this.gameState
    messageShown,   \* elements.message.style.display = 'block'
    savedStats,     \* the list stored under localStorage 'memoryGameStats'
    tasks,          \* pending deferred callbacks, in firing order
    cue,            \* sound played by the last step, "none" if none
    threw,          \* the last step ended in an uncaught TypeError
    resolved,       \* history: the resolutions checkMatch has made since
                    \* the last startGame, counted by outcome
    shuffle         \* the call of shuffleCards in progress: its argument,
                    \* the array it is sorting and where it stands

vars ==
    << game, level, board, flipped, matched, selectedCards, allowClick,
       timer, seconds, turns, gameState, messageShown, savedStats, tasks,
       cue, threw, resolved, shuffle >>

\* A card element of the board is named by its position 1..n in the
\* document.  NoCard stands for an element that is not in the document: no
\* element at all, or a card that createGameBoard has removed with
\* innerHTML = ''.  Nothing in the program reads the classes of a removed
\* element, so they are not kept.
NoCard == 0

\* document.querySelectorAll('.card'): the cards attached to the document
BoardCards == 1..Len(board)

\* classList.add / classList.remove on the elements `cards`, as seen on
\* the set S of attached cards that carry the class
addClass(S, cards) == S \cup (cards \cap BoardCards)
removeClass(S, cards) == S \ cards

\* ------------------------------------------------------------------------
\* The timer queue

\* A pending callback: what it runs, the time left until it is due, the
\* game whose click led to it, the card elements and the isMatch value its
\* closure holds, and the id of its interval (0 for a timeout).
Task(kind, due, origin, card1, card2, id) ==
    [kind |-> kind, due |-> due, origin |-> origin,
     card1 |-> card1, card2 |-> card2, id |-> id, isMatch |-> FALSE]

\* setTimeout / setInterval / requestAnimationFrame: the new callback fires
\* after every pending callback that is due no later than it.
Schedule(ts, t) ==
    LET k == Cardinality({ j \in 1..Len(ts) : ts[j].due <= t.due })
    IN  SubSeq(ts, 1, k) \o << t >> \o SubSeq(ts, k + 1, Len(ts))

\* clearInterval(id)
clearInterval(ts, id) ==
    SelectSeq(ts, LAMBDA t : ~(t.kind = "tick" /\ t.id = id))

\* The head of the queue is due and of the given kind.
Due(kind) ==
    /\ tasks # << >>
    /\ Head(tasks).due = 0
    /\ Head(tasks).kind = kind

\* gameBoard.innerHTML = '': the cards that pending callbacks refer to
\* are no longer in the document.
Detach(ts) ==
    [j \in 1..Len(ts) |-> [ts[j] EXCEPT !.card1 = NoCard, !.card2 = NoCard]]

\* ------------------------------------------------------------------------
\* Board creation

getDimensions(lv) ==
    CASE lv = "2x2" -> << 2, 2 >>
      [] lv = "4x3" -> << 4, 3 >>
      [] lv = "4x4" -> << 4, 4 >>
      [] lv = "4x5" -> << 4, 5 >>
      [] lv = "4x6" -> << 4, 6 >>
      [] OTHER -> << 4, 4 >>

Min(a, b) == IF a < b THEN a ELSE b

\* Array.prototype.slice(0, end)
slice(arr, end) == SubSeq(arr, 1, Min(end, Len(arr)))

\* The orders Array.prototype.sort may leave n elements in when its
\* comparator answers at random: any permutation of 1..n.
Permutations(n) ==
    { p \in [1..n -> 1..n] : \A a, b \in 1..n : p[a] = p[b] => a = b }

\* The boards shuffleCards can return: sort() with a random comparator
\* yields some permutation of the doubled half deck; ids follow the order.
shuffleCards(totalCards) ==
    LET halfDeck == slice(symbols, totalCards \div 2)
        deck == halfDeck \o halfDeck
    IN  { [k \in 1..Len(deck) |-> [symbol |-> deck[p[k]], id |-> k - 1]] :
            p \in Permutations(Len(deck)) }

\* Variant of spread that leaves out the second copy of the half deck.
spreadOnce(totalCards) == slice(symbols, totalCards \div 2)

\* [...halfDeck, ...halfDeck]: the array shuffleCards sorts.  The end index
\* totalCards / 2 of slice is truncated to an integer.
spread(totalCards) ==
    LET halfDeck == slice(symbols, totalCards \div 2)
    IN  halfDeck \o halfDeck

\* .map((symbol, id) => ({ symbol, id }))
mapIds(arr) == [k \in 1..Len(arr) |-> [symbol |-> arr[k], id |-> k - 1]]

createGameBoard(lv) ==
    LET dims == getDimensions(lv)
        totalCards == dims[1] * dims[2]
    IN  shuffleCards(totalCards)

\* The boards createGameBoard can build for each explored level.
Boards == [lv \in LevelChoices |-> createGameBoard(lv)]

\* No call of shuffleCards is in progress.
NoShuffle == [pc |-> "idle", caller |-> "none", totalCards |-> 0, arr |-> << >>]

\* No pair has been resolved yet.
NoResolutions == [match |-> 0, mismatch |-> 0]

\* ------------------------------------------------------------------------
\* Initial state: the state the constructor leaves

Init ==
    /\ game = 0
    /\ level = LEVELS.EASY
    /\ board = << >>
    /\ flipped = {}
    /\ matched = {}
    /\ selectedCards = << >>
    /\ allowClick = TRUE
    /\ timer = 0
    /\ seconds = 0
    /\ turns = 0
    /\ gameState = GAME_STATES.IDLE
    /\ messageShown = FALSE
    /\ savedStats = << >>
    /\ tasks = << >>
    /\ cue = "none"
    /\ threw = FALSE
    /\ resolved = NoResolutions
    /\ shuffle = NoShuffle

\* ------------------------------------------------------------------------
\* Operations

updateTurns(t) == t + 1

\* startTimer: the interval of the previous game is cleared, a new one is
\* created; the id of the new interval is the number of the game.
\* Variant of startTimer that does not clear the interval of the last game.
startTimerKeepingInterval(ts, old, new) ==
    Schedule(ts, Task("tick", TIMER_INTERVAL, new, NoCard, NoCard, new))

startTimer(ts, old, new) ==
    Schedule(clearInterval(ts, old),
             Task("tick", TIMER_INTERVAL, new, NoCard, NoCard, new))

StartGame(lv, cards) ==
    /\ game < MaxGames
    /\ lv \in LevelChoices
    /\ cards \in Boards[lv]
    /\ messageShown' = FALSE
    /\ selectedCards' = << >>
    /\ allowClick' = TRUE
    /\ turns' = 0
    /\ level' = lv
    /\ game' = game + 1
    /\ board' = cards
    /\ tasks' = startTimer(Detach(tasks), timer, game + 1)
    /\ timer' = game + 1
    /\ seconds' = 0
    /\ flipped' = {}
    /\ matched' = {}
    /\ cue' = "none"
    /\ threw' = FALSE
    /\ UNCHANGED << gameState, savedStats >>
    /\ resolved' = NoResolutions
    /\ UNCHANGED shuffle

\* Variant of HandleCardClick that does not look at the class 'flipped'.
HandleCardClickIgnoringFlipped(i) ==
    /\ i \in 1..Len(board)
    /\ (allowClick /\ Len(selectedCards) = 1) => turns < MaxTurns
    /\ LET cardElement == i
           symbol == board[i].symbol
           sel == Append(selectedCards,
                         [element |-> cardElement, symbol |-> symbol])
       IN  IF \/ ~allowClick
              \/ cardElement \in matched
           THEN UNCHANGED << flipped, selectedCards, allowClick, turns, tasks >>
           ELSE /\ flipped' = addClass(flipped, { cardElement })
                /\ selectedCards' = sel
                /\ IF Len(sel) = 2
                   THEN /\ allowClick' = FALSE
                        /\ turns' = updateTurns(turns)
                        /\ tasks' = Schedule(tasks,
                               Task("checkMatch", ANIMATION_DURATION, game,
                                    NoCard, NoCard, 0))
                   ELSE UNCHANGED << allowClick, turns, tasks >>
    /\ cue' = "none"
    /\ threw' = FALSE
    /\ UNCHANGED << game, level, board, matched, timer, seconds, gameState,
                    messageShown, savedStats >>
    /\ UNCHANGED << resolved, shuffle >>

\* Variant of HandleCardClick that counts a turn on every accepted flip.
HandleCardClickCountingFlips(i) ==
    /\ i \in 1..Len(board)
    /\ allowClick => turns < MaxTurns
    /\ LET cardElement == i
           symbol == board[i].symbol
           sel == Append(selectedCards,
                         [element |-> cardElement, symbol |-> symbol])
       IN  IF \/ ~allowClick
              \/ cardElement \in flipped
              \/ cardElement \in matched
           THEN UNCHANGED << flipped, selectedCards, allowClick, turns, tasks >>
           ELSE /\ flipped' = addClass(flipped, { cardElement })
                /\ selectedCards' = sel
                /\ turns' = updateTurns(turns)
                /\ IF Len(sel) = 2
                   THEN /\ allowClick' = FALSE
                        /\ tasks' = Schedule(tasks,
                               Task("checkMatch", ANIMATION_DURATION, game,
                                    NoCard, NoCard, 0))
                   ELSE UNCHANGED << allowClick, tasks >>
    /\ cue' = "none"
    /\ threw' = FALSE
    /\ UNCHANGED << game, level, board, matched, timer, seconds, gameState,
                    messageShown, savedStats >>
    /\ UNCHANGED << resolved, shuffle >>

\* handleCardClick(cardElement, symbol), for the card at position i
HandleCardClick(i) ==
    /\ i \in 1..Len(board)
    /\ (allowClick /\ Len(selectedCards) = 1) => turns < MaxTurns
    /\ LET cardElement == i
           symbol == board[i].symbol
           sel == Append(selectedCards,
                         [element |-> cardElement, symbol |-> symbol])
       IN  IF \/ ~allowClick
              \/ cardElement \in flipped
              \/ cardElement \in matched
           THEN UNCHANGED << flipped, selectedCards, allowClick, turns, tasks >>
           ELSE /\ flipped' = addClass(flipped, { cardElement })
                /\ selectedCards' = sel
                /\ IF Len(sel) = 2
                   THEN /\ allowClick' = FALSE
                        /\ turns' = updateTurns(turns)
                        /\ tasks' = Schedule(tasks,
                               Task("checkMatch", ANIMATION_DURATION, game,
                                    NoCard, NoCard, 0))
                   ELSE UNCHANGED << allowClick, turns, tasks >>
    /\ cue' = "none"
    /\ threw' = FALSE
    /\ UNCHANGED << game, level, board, matched, timer, seconds, gameState,
                    messageShown, savedStats >>
    /\ UNCHANGED << resolved, shuffle >>

\* Variant of handleMatch whose callback marks the first card only.
handleMatchFirstOnly(ts, origin, card1, card2, frame) ==
    Schedule(ts, Task("frame", frame, origin, card1.element, NoCard, 0))

\* handleMatch: the callbacks it leaves pending.  The animation frame
\* arrives after `frame` ms; its callback then starts the timeout that
\* marks both cards.
handleMatch(ts, origin, card1, card2, frame) ==
    Schedule(ts, Task("frame", frame, origin, card1.element, card2.element, 0))

\* handleMismatch: the callback it leaves pending.
handleMismatch(ts, origin, card1, card2) ==
    Schedule(ts, Task("unflip", ANIMATION_DURATION * 2, origin,
                      card1.element, card2.element, 0))

\* The callback of the timeout set by handleCardClick.  Reading .symbol of
\* a missing card is a TypeError that ends the callback at its first line.
CheckMatch ==
    /\ Due("checkMatch")
    /\ IF Len(selectedCards) < 2
       THEN /\ threw' = TRUE
            /\ cue' = "none"
            /\ tasks' = Tail(tasks)
            /\ UNCHANGED << selectedCards, gameState, resolved >>
       ELSE LET card1 == selectedCards[1]
                card2 == selectedCards[2]
                isMatch == card1.symbol = card2.symbol
                origin == Head(tasks).origin
                enable == [Task("enable", CHECK_MATCH_DELAY, origin,
                                card1.element, card2.element, 0)
                           EXCEPT !.isMatch = isMatch]
            IN  /\ IF isMatch
                   THEN \E frame \in { k * Unit : k \in 0..MaxFrameDelay } :
                          /\ gameState' = GAME_STATES.CHECKING
                          /\ cue' = "match"
                          /\ resolved' = [resolved EXCEPT !.match = @ + 1]
                          /\ tasks' = Schedule(
                                 handleMatch(Tail(tasks), origin, card1, card2,
                                             frame),
                                 enable)
                   ELSE /\ cue' = "fail"
                        /\ resolved' = [resolved EXCEPT !.mismatch = @ + 1]
                        /\ tasks' = Schedule(
                               handleMismatch(Tail(tasks), origin, card1,
                                              card2),
                               enable)
                        /\ UNCHANGED gameState
                /\ selectedCards' = << >>
                /\ threw' = FALSE
    /\ UNCHANGED << game, level, board, flipped, matched, allowClick, timer,
                    seconds, turns, messageShown, savedStats >>
    /\ UNCHANGED shuffle

\* The requestAnimationFrame callback of handleMatch.
AnimationFrame ==
    /\ Due("frame")
    /\ tasks' = Schedule(Tail(tasks),
                    [Head(tasks) EXCEPT !.kind = "mark",
                                        !.due = ANIMATION_DURATION])
    /\ cue' = "none"
    /\ threw' = FALSE
    /\ UNCHANGED << game, level, board, flipped, matched, selectedCards,
                    allowClick, timer, seconds, turns, gameState,
                    messageShown, savedStats >>
    /\ UNCHANGED << resolved, shuffle >>

\* Variant of MarkMatched that also turns the two cards face down.
MarkMatchedTurningDown ==
    /\ Due("mark")
    /\ tasks' = Tail(tasks)
    /\ matched' = addClass(matched, { Head(tasks).card1, Head(tasks).card2 })
    /\ flipped' = removeClass(flipped, { Head(tasks).card1, Head(tasks).card2 })
    /\ gameState' = GAME_STATES.PLAYING
    /\ cue' = "none"
    /\ threw' = FALSE
    /\ UNCHANGED << game, level, board, selectedCards, allowClick,
                    timer, seconds, turns, messageShown, savedStats >>
    /\ UNCHANGED << resolved, shuffle >>

\* The timeout callback of handleMatch.
MarkMatched ==
    /\ Due("mark")
    /\ tasks' = Tail(tasks)
    /\ matched' = addClass(matched, { Head(tasks).card1, Head(tasks).card2 })
    /\ gameState' = GAME_STATES.PLAYING
    /\ cue' = "none"
    /\ threw' = FALSE
    /\ UNCHANGED << game, level, board, flipped, selectedCards, allowClick,
                    timer, seconds, turns, messageShown, savedStats >>
    /\ UNCHANGED << resolved, shuffle >>

\* The timeout callback of handleMismatch.
Unflip ==
    /\ Due("unflip")
    /\ tasks' = Tail(tasks)
    /\ flipped' = removeClass(flipped, { Head(tasks).card1, Head(tasks).card2 })
    /\ cue' = "none"
    /\ threw' = FALSE
    /\ UNCHANGED << game, level, board, matched, selectedCards, allowClick,
                    timer, seconds, turns, gameState, messageShown,
                    savedStats >>
    /\ UNCHANGED << resolved, shuffle >>

\* document.querySelectorAll('.card:not(.matched)')
remainingCards == { c \in BoardCards : c \notin matched }

\* Variant of checkGameOver that is content with one matched pair.
checkGameOverAnyMatched(ts) ==
    IF matched # {}
    THEN [tasks |-> clearInterval(ts, timer), cue |-> "win", message |-> TRUE]
    ELSE [tasks |-> ts, cue |-> "none", message |-> messageShown]

\* checkGameOver: the second definition of the class body is the one in force.
checkGameOver(ts) ==
    IF remainingCards = {}
    THEN [tasks |-> clearInterval(ts, timer), cue |-> "win", message |-> TRUE]
    ELSE [tasks |-> ts, cue |-> "none", message |-> messageShown]

\* saveGameStats and finishGame are reached only from the first definition
\* of checkGameOver, which the second one replaces: nothing calls them.
saveGameStats(saved) ==
    Append(saved, [level |-> level, turns |-> turns, time |-> seconds])

finishGame(ts) ==
    [tasks |-> clearInterval(ts, timer), cue |-> "win", message |-> TRUE,
     saved |-> saveGameStats(savedStats)]

\* The callback of the timeout set by checkMatch.
EnableClick ==
    /\ Due("enable")
    /\ allowClick' = TRUE
    /\ LET over == checkGameOver(Tail(tasks))
       IN  /\ tasks' = over.tasks
           /\ cue' = over.cue
           /\ messageShown' = over.message
    /\ threw' = FALSE
    /\ UNCHANGED << game, level, board, flipped, matched, selectedCards, timer,
                    seconds, turns, gameState, savedStats >>
    /\ UNCHANGED << resolved, shuffle >>

\* The callback of the interval set by startTimer.
Tick ==
    /\ Due("tick")
    /\ seconds < MaxSeconds
    /\ seconds' = seconds + 1
    /\ tasks' = Schedule(Tail(tasks),
                    [Head(tasks) EXCEPT !.due = TIMER_INTERVAL])
    /\ cue' = "none"
    /\ threw' = FALSE
    /\ UNCHANGED << game, level, board, flipped, matched, selectedCards,
                    allowClick, timer, turns, gameState, messageShown,
                    savedStats >>
    /\ UNCHANGED << resolved, shuffle >>

\* One time step passes; no callback is due.
Advance ==
    /\ tasks # << >>
    /\ Head(tasks).due > 0
    /\ tasks' = [j \in 1..Len(tasks) |-> [tasks[j] EXCEPT !.due = @ - Unit]]
    /\ cue' = "none"
    /\ threw' = FALSE
    /\ UNCHANGED << game, level, board, flipped, matched, selectedCards,
                    allowClick, timer, seconds, turns, gameState,
                    messageShown, savedStats >>
    /\ UNCHANGED << resolved, shuffle >>

\* ------------------------------------------------------------------------
\* Board creation, step by step.  For the larger boards the set of all
\* permutations is out of reach, so the sort of shuffleCards is followed as
\* a sequence of exchanges of two elements, as far as MaxDisplaced allows.

\* The elements of arr that are not where spread put them.
Displaced(arr, totalCards) ==
    Cardinality({ k \in 1..Len(arr) : arr[k] # spread(totalCards)[k] })

\* The game variables that board creation does not touch.
gameVars ==
    << game, flipped, matched, selectedCards, allowClick, timer, seconds,
       turns, gameState, messageShown, savedStats, tasks, cue, resolved >>

\* The player picks a value in the level selector.
SelectLevel(lv) ==
    /\ shuffle.pc = "idle"
    /\ lv # level
    /\ level' = lv
    /\ UNCHANGED << board, threw, shuffle >>
    /\ UNCHANGED gameVars

\* createGameBoard calls shuffleCards(rows * cols) for the selected level.
CreateGameBoardCall ==
    /\ shuffle.pc = "idle"
    /\ LET dims == getDimensions(level)
           totalCards == dims[1] * dims[2]
       IN  shuffle' = [pc |-> "sort", caller |-> "createGameBoard",
                       totalCards |-> totalCards, arr |-> spread(totalCards)]
    /\ board' = << >>
    /\ threw' = FALSE
    /\ UNCHANGED level
    /\ UNCHANGED gameVars

\* shuffleCards(totalCards) called with an argument of its own.
ShuffleCardsCall(totalCards) ==
    /\ shuffle.pc = "idle"
    /\ totalCards \in 0..MaxDirect
    /\ shuffle' = [pc |-> "sort", caller |-> "direct",
                   totalCards |-> totalCards, arr |-> spread(totalCards)]
    /\ threw' = FALSE
    /\ UNCHANGED << level, board >>
    /\ UNCHANGED gameVars

\* sort(() => Math.random() - 0.5) exchanges two elements.
SortExchange(a, b) ==
    /\ shuffle.pc = "sort"
    /\ a \in 1..Len(shuffle.arr)
    /\ b \in 1..Len(shuffle.arr)
    /\ a < b
    /\ LET arr == [shuffle.arr EXCEPT ![a] = shuffle.arr[b],
                                      ![b] = shuffle.arr[a]]
       IN  /\ Displaced(arr, shuffle.totalCards) <= MaxDisplaced
           /\ shuffle' = [shuffle EXCEPT !.arr = arr]
    /\ UNCHANGED << level, board, threw >>
    /\ UNCHANGED gameVars

\* The sort ends; map gives the cards their ids and the board is built.
ShuffleReturn ==
    /\ shuffle.pc = "sort"
    /\ shuffle' = [shuffle EXCEPT !.pc = "done"]
    /\ board' = mapIds(shuffle.arr)
    /\ UNCHANGED << level, threw >>
    /\ UNCHANGED gameVars

NextBoard ==
    \/ \E lv \in LevelInputs : SelectLevel(lv)
    \/ CreateGameBoardCall
    \/ \E totalCards \in 0..MaxDirect : ShuffleCardsCall(totalCards)
    \/ \E a, b \in 1..Len(shuffle.arr) : SortExchange(a, b)
    \/ ShuffleReturn

SpecBoard == Init /\ [][NextBoard]_vars

Next ==
    \/ \E lv \in LevelChoices : \E cards \in Boards[lv] :
          StartGame(lv, cards)
    \/ \E i \in 1..Len(board) : HandleCardClick(i)
    \/ CheckMatch
    \/ AnimationFrame
    \/ MarkMatched
    \/ Unflip
    \/ EnableClick
    \/ Tick
    \/ Advance

Spec == Init /\ [][Next]_vars

\* ------------------------------------------------------------------------
\* Vocabulary of the properties

\* A deferred callback runs in this step.
CallbackStep ==
    CheckMatch \/ AnimationFrame \/ MarkMatched \/ Unflip \/ EnableClick

\* The callback that is about to run was set up by a previous game.
StaleDue ==
    /\ tasks # << >>
    /\ Head(tasks).due = 0
    /\ Head(tasks).kind # "tick"
    /\ Head(tasks).origin # game

\* A pair of the board awaits the end of its resolution: two cards are
\* selected, or the callback that re-enables input after resolving two
\* cards of the board is still pending.
PairPending ==
    \/ Len(selectedCards) >= 2
    \/ \E j \in 1..Len(tasks) :
          tasks[j].kind = "enable" /\ tasks[j].card1 # NoCard

\* A card click is handled in this step.
ClickStep == \E i \in 1..Len(board) : HandleCardClick(i)

\* How often the callback t is pending in the queue ts.
Pending(ts, t) == Cardinality({ j \in 1..Len(ts) : ts[j] = t })

\* The due callback of the given kind runs in this step: it leaves the
\* queue, which no click and no passing of time makes it do.
Fired(kind) ==
    /\ Due(kind)
    /\ game' = game
    /\ Pending(tasks', Head(tasks)) < Pending(tasks, Head(tasks))

\* The two card elements the due callback holds, as far as they are cards
\* of the board.
DueCards == { Head(tasks).card1, Head(tasks).card2 } \cap BoardCards

\* The win check has found every card of the board matched.
GameOver == messageShown

\* C1: the selection never holds more than two cards.
SelectionAtMostTwo == Len(selectedCards) <= 2

\* C2: a callback set up by a previous game changes nothing of the new game:
\* not its selection, input lock, card flags, turns or timer.
StaleCallbackHasNoEffect ==
    [][(StaleDue /\ CallbackStep) =>
          UNCHANGED << selectedCards, allowClick, flipped, matched, turns,
                       timer, seconds >>]_vars

\* C3: while a pair awaits the end of its resolution, a card click flips no
\* card, adds nothing to the selection and leaves turns alone.
ClickRejectedWhilePairPending ==
    [][(PairPending /\ ClickStep) =>
          UNCHANGED << flipped, selectedCards, turns >>]_vars

\* C4: turns is reset by startGame, grows by one on the click that brings
\* the selection to two cards, and is changed by nothing else.
TurnsCountPairSelections ==
    [][turns' = IF game' # game THEN 0
                ELSE IF Len(selectedCards) = 1 /\ Len(selectedCards') = 2
                     THEN turns + 1
                     ELSE turns]_vars

\* A second pair has been selected after a first one was resolved.
SecondPairSelected ==
    turns = 2 /\ Len(selectedCards) = 2 /\ ~allowClick

\* C5: once all cards are matched and the win check has run, the state is
\* Finished and no interval is left ticking.
FinishedWhenAllMatched ==
    GameOver =>
        /\ gameState = GAME_STATES.FINISHED
        /\ \A j \in 1..Len(tasks) : tasks[j].kind # "tick"

\* C6: when the game is over, the last record handed to the persistence
\* collaborator is the final Stats of this game.
StatsSavedAtGameOver ==
    GameOver =>
        /\ savedStats # << >>
        /\ savedStats[Len(savedStats)] =
              [level |-> level, turns |-> turns, time |-> seconds]

\* C7: once a game has been started the state is no longer Idle, and while
\* a selected pair awaits its resolution the state is Checking.
StateMachineFollowed ==
    /\ game >= 1 => gameState # GAME_STATES.IDLE
    /\ Len(selectedCards) = 2 => gameState = GAME_STATES.CHECKING

\* C8: every run of checkMatch leaves the selection empty, and a flip is
\* accepted only when the selection holds no complete pair.
SelectionClearedByResolution ==
    [][/\ Fired("checkMatch") => selectedCards' = << >>
       /\ (ClickStep /\ flipped' # flipped) => Len(selectedCards) <= 1]_vars

\* The callback that marks the cards C matched is pending in ts: the
\* animation frame, or the timeout its callback sets.
MarkPending(ts, C) ==
    \E j \in 1..Len(ts) :
        /\ ts[j].kind \in { "frame", "mark" }
        /\ { ts[j].card1, ts[j].card2 } = C

UnflipBeforeInputEnabled ==
    (\E j \in 1..Len(tasks) :
        tasks[j].kind = "unflip" /\ tasks[j].card1 # NoCard)
    => ~allowClick

\* C11: a click on a card that is face up or matched changes nothing: not
\* the selection, the card flags, turns, the input lock or the pending
\* callbacks, and raises no error.
DuplicateFlipIgnored ==
    [][\A i \in 1..Len(board) :
          (HandleCardClick(i) /\ (i \in flipped \/ i \in matched))
          => /\ UNCHANGED << selectedCards, flipped, matched, turns,
                             allowClick, tasks >>
             /\ ~threw']_vars

\* One unmatched card is selected and face up while input is accepted, and
\* the last step, a click among them, left no cue and no error.
DuplicateFlipOffered ==
    /\ Len(selectedCards) = 1
    /\ selectedCards[1].element \in flipped \ matched
    /\ allowClick
    /\ cue = "none"
    /\ ~threw

\* How many cards of the board carry the symbol sym.
Copies(sym) == Cardinality({ k \in 1..Len(board) : board[k].symbol = sym })

\* C12: a board built by createGameBoard has rows * cols cards, two of each
\* of the first rows * cols / 2 symbols of the pool and no other symbol,
\* and ids 0 .. rows * cols - 1 in board order.
BoardWellFormed ==
    (shuffle.pc = "done" /\ shuffle.caller = "createGameBoard")
    => LET dims == getDimensions(level)
           n == dims[1] * dims[2]
       IN  /\ Len(board) = n
           /\ \A j \in 1..Len(symbols) :
                 Copies(symbols[j]) = IF j <= n \div 2 THEN 2 ELSE 0
           /\ \A k \in 1..Len(board) : board[k].id = k - 1

\* The 4x4 fallback board of an unknown level has been built, shuffled.
FallbackBoardShuffled ==
    /\ shuffle.pc = "done"
    /\ shuffle.caller = "createGameBoard"
    /\ level = "unknown"
    /\ Len(board) = 16
    /\ board[1].symbol # symbols[1]

Intervals(ts) == { j \in 1..Len(ts) : ts[j].kind = "tick" }

\* C14: at most one interval is active at any moment; startGame sets seconds
\* to 0 and leaves exactly the interval of the new game, a full second away;
\* within a game seconds changes only when the interval fires, by exactly 1,
\* and the interval then fires again a full second later; at game over no
\* interval is active, so seconds changes no more.
TimerContract ==
    [][/\ Cardinality(Intervals(tasks')) <= 1
       /\ \A j \in Intervals(tasks') : tasks'[j].id = timer'
       /\ game' # game
          => /\ seconds' = 0
             /\ \E j \in Intervals(tasks') : tasks'[j].due = TIMER_INTERVAL
       /\ game' = game
          => seconds' = IF Fired("tick") THEN seconds + 1 ELSE seconds
       /\ Fired("tick")
          => /\ ~GameOver
             /\ \E j \in Intervals(tasks') : tasks'[j].due = TIMER_INTERVAL
       /\ GameOver' => Intervals(tasks') = {}]_vars

\* The interval of a restarted game has fired while that of the first game
\* was active at the restart.
RestartedTimerTicked ==
    /\ game = 2
    /\ seconds >= 1
    /\ Intervals(tasks) # {}

\* C15: in a game played without restart, game over comes only after as
\* many matching resolutions as the board has pairs, and the turn counter
\* then equals the matching plus the mismatching resolutions of the game.
GameOverAfterAllPairs ==
    (game = 1 /\ GameOver)
    => /\ resolved.match = Len(board) \div 2
       /\ turns = resolved.match + resolved.mismatch

\* The first game is over after a mismatch and the matches of both pairs.
GameOverAfterMismatch ==
    /\ game = 1
    /\ GameOver
    /\ resolved.mismatch = 1
    /\ turns = 3

\* C16: when the win check of a matching resolution of the current game
\* runs, the matched marks of that resolution have been applied: neither
\* the animation frame nor the timeout that marks the two cards is pending.
WinCheckAfterMarks ==
    [][( /\ Fired("enable")
         /\ Head(tasks).isMatch
         /\ Head(tasks).origin = game )
       => /\ ~MarkPending(tasks, DueCards)
          /\ DueCards \subseteq matched]_vars

\* C17: whenever the checkMatch callback runs, the selection holds exactly
\* two distinct cards of the board, and checkMatch reads no symbol of a
\* missing card.
CheckMatchSeesTwoCards ==
    [][Fired("checkMatch")
       => /\ Len(selectedCards) = 2
          /\ selectedCards[1].element # selectedCards[2].element
          /\ { selectedCards[1].element, selectedCards[2].element }
                \subseteq BoardCards
          /\ ~threw']_vars

\* The cards of the selection.
Selected == { selectedCards[k].element : k \in 1..Len(selectedCards) }

\* The cards a pending callback will turn face down or mark as matched.
AwaitingCallback ==
    UNION { { tasks[j].card1, tasks[j].card2 } :
              j \in { k \in 1..Len(tasks) :
                        tasks[k].kind \in { "unflip", "frame", "mark" } } }

\* C18: every card that is face up and not matched is in the selection or is
\* one of a resolved pair whose pending callback turns it face down or marks
\* it matched.
FaceUpCardsAccountedFor ==
    (flipped \ matched) \subseteq (Selected \cup AwaitingCallback)

\* The cards of the board that carry the symbol sym and are in the set C.
CardsOf(sym, C) == { c \in C \cap BoardCards : board[c].symbol = sym }

====
